---- MODULE Spec2Model ----
(***************************************************************************)
(* Local-deformation analysis (src/main.py): the Protein neighbour graph   *)
(* and local distance tensor, the AverageProtein ensemble consensus and    *)
(* the Deformation metric engine.                                          *)
(*                                                                         *)
(* Conventions of the model                                                *)
(*  - Residues and list positions are numbered from 1 here; the Python     *)
(*    source numbers them from 0 (model residue r is source residue r-1).  *)
(*  - A coordinate or tensor row is a record [nan, v]: nan = TRUE is a row *)
(*    of NaN, otherwise v = <<x, y, z>> with integer components.           *)
(*  - Real arithmetic is exact.  A tensor value is v / scale, where scale  *)
(*    is 1 for a Protein and the member count for an AverageProtein.       *)
(*  - Lengths are in Angstrom; neigh_cut is kept in half Angstroms         *)
(*    (neigh_cut = 3 is a cutoff of 1.5), the lddt bins likewise.          *)
(*  - The source leaves several names free in the method bodies (cut,      *)
(*    min_conf, norm, cdist, rotate_points, self).  They are bound to      *)
(*    what the class provides: cut = self.neigh_cut, min_conf =            *)
(*    self.min_plddt, cdist = the pairwise Euclidean distance,             *)
(*    rotate_points = _rotate_points, norm = the norm flag of the          *)
(*    Deformation.  A name that is assigned on some paths only (idx_list,  *)
(*    coord_list) is unbound on the others, as in the source.              *)
(***************************************************************************)
EXTENDS Integers, Sequences, FiniteSets, TLC

VARIABLES kwargs, prot, call, ens, dfm

vars == <<kwargs, prot, call, ens, dfm>>

\* ------------------------------------------------------------------------
\* Bounds of the model
\* ------------------------------------------------------------------------
ChainLen == 5
ChainMaxX == 4
KindLen == 3
KindMaxX == 2
PairLen == 3
PairMaxX == 1
PairMaxMoved == 1
EnsMaxM == 2
LddtLen == 2
LddtMaxX == 6
LifeLen == 2
RotLen == 2
RotMaxX == 1
RotMaxM == 3
LifeMaxX == 1
ShearLen == 4
ShearMaxMoved == 1

ProtIds == {1, 2}

\* ------------------------------------------------------------------------
\* Rows, vectors and distances
\* ------------------------------------------------------------------------
Row(x, y, z) == [nan |-> FALSE, v |-> <<x, y, z>>]
NaNRow == [nan |-> TRUE, v |-> <<0, 0, 0>>]
ZeroRow == Row(0, 0, 0)

\* a - b on coordinate rows; NaN propagates
RowSub(a, b) ==
    IF a.nan \/ b.nan THEN NaNRow
    ELSE Row(a.v[1] - b.v[1], a.v[2] - b.v[2], a.v[3] - b.v[3])

\* - a
RowNeg(a) == IF a.nan THEN NaNRow ELSE Row(0 - a.v[1], 0 - a.v[2], 0 - a.v[3])

\* squared Euclidean norm of a finite row
SqNorm(a) == a.v[1] * a.v[1] + a.v[2] * a.v[2] + a.v[3] * a.v[3]

Indices(l) == [k \in 1..l |-> k]

\* (d > 0) & (d <= cut) & isfinite(d), d = cdist(xyz, xyz)[i][j]; every
\* comparison with a NaN distance is False.  cut is in half Angstroms.
DistInCut(a, b, cut) ==
    /\ ~a.nan
    /\ ~b.nan
    /\ SqNorm(RowSub(a, b)) > 0
    /\ 4 * SqNorm(RowSub(a, b)) <= cut * cut

\* ------------------------------------------------------------------------
\* Protein
\* ------------------------------------------------------------------------
\* Protein.__init__: dtype is read from the 'name' keyword
ProteinInit(kw) ==
    [name |-> kw.name,
     dtype |-> kw.name,
     coord |-> kw.coord,
     plddt |-> kw.plddt,
     min_plddt |-> kw.min_plddt,
     neigh_cut |-> kw.neigh_cut,
     neigh_idx |-> <<>>,
     neigh_tensor |-> <<>>,
     raised |-> "none"]

\* idx_list of the 'af'/'dmp' branch
IdxListModel(coord, plddt, cut, min_conf) ==
    [i \in 1..Len(coord) |->
        SelectSeq(Indices(Len(coord)),
                  LAMBDA j : /\ DistInCut(coord[i], coord[j], cut)
                             /\ plddt[j] >= min_conf
                             /\ plddt[i] >= min_conf)]

\* the 'pdb' branch with a strict cutoff test (d < cut)
IdxListPdbStrict(coord, cut) ==
    [i \in 1..Len(coord) |->
        SelectSeq(Indices(Len(coord)),
                  LAMBDA j : /\ DistInCut(coord[i], coord[j], cut)
                             /\ 4 * SqNorm(RowSub(coord[i], coord[j])) < cut * cut)]

\* idx_list of the 'pdb' branch
IdxListPdb(coord, cut) ==
    [i \in 1..Len(coord) |->
        SelectSeq(Indices(Len(coord)),
                  LAMBDA j : DistInCut(coord[i], coord[j], cut))]

Contains(s, x) == \E k \in 1..Len(s) : s[k] = x

\* _get_ldt with neigh_idx a list: a dense l x l tensor of zeros in which
\* only the rows of neighbours are written
GetLdtNeigh(coord, idx) ==
    [i \in 1..Len(coord) |->
        [j \in 1..Len(coord) |->
            IF Contains(idx[i], j) THEN RowSub(coord[i], coord[j]) ELSE ZeroRow]]

\* _get_ldt with neigh_idx a str: all pairs i < j, d and -d
GetLdtAll(coord) ==
    [i \in 1..Len(coord) |->
        [j \in 1..Len(coord) |->
            IF i < j THEN RowSub(coord[i], coord[j])
            ELSE IF j < i THEN RowNeg(RowSub(coord[j], coord[i]))
            ELSE ZeroRow]]

\* _get_ldt that stores the same difference on both sides of the diagonal
GetLdtMirror(coord, isStr, idx) ==
    [i \in 1..Len(coord) |->
        [j \in 1..Len(coord) |->
            IF i # j /\ (isStr \/ Contains(idx[i], j))
            THEN RowSub(coord[IF i < j THEN i ELSE j], coord[IF i < j THEN j ELSE i])
            ELSE ZeroRow]]

GetLdt(coord, isStr, idx) ==
    IF isStr THEN GetLdtAll(coord) ELSE GetLdtNeigh(coord, idx)

\* nothing was derived from the Protein yet and no call on it has raised
Fresh(p) == prot[p].raised = "none" /\ prot[p].neigh_idx = <<>>

\* Protein.get_local_neighborhood
GetLocalNeighborhood(p) ==
    /\ LET P == prot[p]
           known == P.dtype \in {"af", "dmp", "pdb"}
           idx == IF P.dtype \in {"af", "dmp"}
                  THEN IdxListModel(P.coord, P.plddt, P.neigh_cut, P.min_plddt)
                  ELSE IdxListPdb(P.coord, P.neigh_cut)
       IN  prot' = [prot EXCEPT ![p] =
                IF known
                THEN [P EXCEPT !.neigh_idx = idx,
                               !.neigh_tensor = GetLdt(P.coord, FALSE, idx),
                               !.raised = "none"]
                ELSE [P EXCEPT !.raised = "UnboundLocalError"]]
    /\ UNCHANGED <<kwargs, call, ens, dfm>>

\* a direct call of _get_ldt on a Protein whose neigh_idx the caller has
\* set to a string (all-pairs mode) or left as derived (neighbour mode)
CallGetLdt(p, isStr) ==
    /\ prot[p].raised = "none"
    /\ isStr \/ prot[p].neigh_idx # <<>>
    /\ call' = [p |-> p, isStr |-> isStr,
                ret |-> GetLdt(prot[p].coord, isStr, prot[p].neigh_idx)]
    /\ UNCHANGED <<kwargs, prot, ens, dfm>>

\* Protein.load_coordinates: the coordinates are replaced, nothing else
LoadCoordinates(p, c) ==
    /\ prot' = [prot EXCEPT ![p] = [@ EXCEPT !.coord = c, !.raised = "none"]]
    /\ UNCHANGED <<kwargs, call, ens, dfm>>

MinOf(s) == CHOOSE x \in {s[k] : k \in 1..Len(s)} : \A k \in 1..Len(s) : x <= s[k]

\* Protein.load_data_from_path with a file that holds the coordinates c: the
\* coordinates are replaced, then min_plddt becomes np.min(self.plddt),
\* which raises on an empty plddt
LoadDataFromPath(p, c) ==
    /\ LET P == prot[p]
       IN  prot' = [prot EXCEPT ![p] =
                IF Len(P.plddt) = 0
                THEN [P EXCEPT !.coord = c, !.raised = "ValueError"]
                ELSE [P EXCEPT !.coord = c, !.min_plddt = MinOf(P.plddt),
                               !.raised = "none"]]
    /\ UNCHANGED <<kwargs, call, ens, dfm>>

\* ------------------------------------------------------------------------
\* AverageProtein
\* ------------------------------------------------------------------------
RECURSIVE SumTo(_, _)
SumTo(F(_), n) == IF n = 0 THEN 0 ELSE F(n) + SumTo(F, n - 1)

Isqrt(n) == CHOOSE r \in 0..n : r * r <= n /\ n < (r + 1) * (r + 1)

\* cdist(x, x)[i][j] is a whole number (the model takes square roots of
\* perfect squares only where a distance itself, not its square, is summed)
ExactDist(coord) ==
    \A i, j \in 1..Len(coord) :
        (~coord[i].nan /\ ~coord[j].nan) =>
            LET s == SqNorm(RowSub(coord[i], coord[j])) IN Isqrt(s) * Isqrt(s) = s

\* AverageProtein.__init__
AverageProteinInit(members, cut) ==
    [made |-> TRUE,
     proteins |-> members,
     dtype |-> prot[members[1]].dtype,
     neigh_cut |-> cut,
     neigh_idx |-> <<>>,
     ldt |-> <<>>,
     ldt_list |-> <<>>,
     neigh_tensor |-> <<>>,
     raised |-> "none"]

\* idx_list of the 'pdb' branch over ca_dist, the mean of the members'
\* distance matrices: M * ca_dist[i][j] is the sum of the distances, NaN as
\* soon as one member has a NaN coordinate at i or j
IdxListMean(coords, cut) ==
    LET M == Len(coords)
        l == Len(coords[1])
        finite(i, j) == \A m \in 1..M : ~coords[m][i].nan /\ ~coords[m][j].nan
        total(i, j) ==
            LET d(m) == Isqrt(SqNorm(RowSub(coords[m][i], coords[m][j])))
            IN  SumTo(d, M)
    IN  [i \in 1..l |->
            SelectSeq(Indices(l),
                      LAMBDA j : /\ finite(i, j)
                                 /\ total(i, j) > 0
                                 /\ 2 * total(i, j) <= M * cut)]

\* ldt[m][j, idx_list[j]]: the rows of the neighbours of j, in their order
Restrict(ldt, j, idx) == [k \in 1..Len(idx) |-> ldt[j][idx[k]]]

\* H = P.T @ Q, entry (a, b)
CrossCov(P, Q, a, b) ==
    LET t(k) == P[k].v[a] * Q[k].v[b] IN SumTo(t, Len(P))

OnXAxis(P) == \A k \in 1..Len(P) : P[k].v[2] = 0 /\ P[k].v[3] = 0

\* the cases of _rotate_points whose rotation has rational entries
RotDeterminate(P, Q) ==
    \/ P = Q
    \/ OnXAxis(P) /\ OnXAxis(Q)
    \/ \A a, b \in 1..3 : CrossCov(P, Q, a, b) = 0

\* _rotate_points(P, Q), the Kabsch rotation R = V E U^T of H = P^T Q = U S V^T
\* applied to the rows of P:
\*  - H = 0: the factors of the zero matrix are identities, R = I;
\*  - P and Q on the x axis: H = h e1 e1^T, so R e1 = sign(h) e1;
\*  - P = Q: H is symmetric positive semidefinite, U and V agree on its
\*    range, which holds the rows of P, so R fixes them.
RotatePoints(P, Q) ==
    IF \A a, b \in 1..3 : CrossCov(P, Q, a, b) = 0 THEN P
    ELSE IF OnXAxis(P) /\ OnXAxis(Q)
         THEN IF CrossCov(P, Q, 1, 1) < 0
              THEN [k \in 1..Len(P) |-> RowNeg(P[k])]
              ELSE P
    ELSE P

\* _rotate_all_ldt that rotates every member onto the previous member's set
RotateAllLdtChained(ldt, idx_list) ==
    [j \in 1..Len(idx_list) |->
        [m \in 1..Len(ldt) |->
            IF m = 1 THEN Restrict(ldt[1], j, idx_list[j])
            ELSE RotatePoints(Restrict(ldt[m], j, idx_list[j]),
                              Restrict(ldt[m - 1], j, idx_list[j]))]]

\* _rotate_all_ldt: per residue j, member 0's set unrotated, then every
\* other member's set rotated onto ldt_list[j][0]
RotateAllLdt(ldt, idx_list) ==
    [j \in 1..Len(idx_list) |->
        [m \in 1..Len(ldt) |->
            IF m = 1 THEN Restrict(ldt[1], j, idx_list[j])
            ELSE RotatePoints(Restrict(ldt[m], j, idx_list[j]),
                              Restrict(ldt[1], j, idx_list[j]))]]

\* np.mean(ldt_list[i], axis=0) times the member count
SumSets(sets) ==
    [k \in 1..Len(sets[1]) |->
        LET x(m) == sets[m][k].v[1]
            y(m) == sets[m][k].v[2]
            z(m) == sets[m][k].v[3]
        IN  Row(SumTo(x, Len(sets)), SumTo(y, Len(sets)), SumTo(z, Len(sets)))]

\* _average_all_ldt that averages whenever there is a neighbour at all
AverageAllLdtFromOne(ldt_list, idx_list) ==
    [i \in 1..Len(ldt_list) |->
        IF Len(idx_list[i]) > 0 THEN SumSets(ldt_list[i]) ELSE <<>>]

\* _average_all_ldt
AverageAllLdt(ldt_list, idx_list) ==
    [i \in 1..Len(ldt_list) |->
        IF Len(idx_list[i]) > 1 THEN SumSets(ldt_list[i]) ELSE <<>>]

MemberCoords == [m \in 1..Len(ens.proteins) |-> prot[ens.proteins[m]].coord]

\* AverageProtein(proteins, neigh_cut=cut)
NewAverageProtein(members, cut) ==
    /\ ~ens.made
    /\ ens' = AverageProteinInit(members, cut)
    /\ UNCHANGED <<kwargs, prot, call, dfm>>

\* the members' geometry stays within what the model computes exactly:
\* whole-number distances and rotations with rational entries
EnsInputsExact ==
    /\ \A m \in 1..Len(ens.proteins) : ExactDist(MemberCoords[m])
    /\ (ens.dtype = "pdb"
        /\ \A m \in 1..Len(ens.proteins) :
                Len(MemberCoords[m]) = Len(MemberCoords[1]))
       => LET idx_list == IdxListMean(MemberCoords, ens.neigh_cut)
              ldt == [m \in 1..Len(ens.proteins) |->
                          GetLdt(MemberCoords[m], FALSE, idx_list)]
          IN  \A j \in 1..Len(idx_list), m \in 1..Len(ldt) :
                  RotDeterminate(Restrict(ldt[m], j, idx_list[j]),
                                 Restrict(ldt[1], j, idx_list[j]))

\* the body of get_average_local_neighborhood: the object it leaves
AverageLocalNeighborhood(e, coords) ==
    IF e.dtype # "pdb"
    THEN \* coord_list is bound in the 'pdb' branch only
         [e EXCEPT !.raised = "UnboundLocalError"]
    ELSE IF \E m \in 1..Len(coords) : Len(coords[m]) # Len(coords[1])
    THEN \* np.mean over distance matrices of different shapes
         [e EXCEPT !.raised = "ValueError"]
    ELSE LET idx_list == IdxListMean(coords, e.neigh_cut)
             ldt == [m \in 1..Len(coords) |-> GetLdt(coords[m], FALSE, idx_list)]
             ldt_list == RotateAllLdt(ldt, idx_list)
         IN  [e EXCEPT !.neigh_idx = idx_list,
                       !.ldt = ldt,
                       !.ldt_list = ldt_list,
                       !.neigh_tensor = AverageAllLdt(ldt_list, idx_list)]

\* AverageProtein.get_average_local_neighborhood
GetAverageLocalNeighborhood ==
    /\ ens.made
    /\ ens.raised = "none"
    /\ ens.neigh_idx = <<>>
    /\ EnsInputsExact = TRUE
    /\ ens' = AverageLocalNeighborhood(ens, MemberCoords)
    /\ UNCHANGED <<kwargs, prot, call, dfm>>

\* ------------------------------------------------------------------------
\* Deformation
\* ------------------------------------------------------------------------
\* A compared structure is named by a reference: 1 or 2 for a Protein, 0 for
\* the AverageProtein.
SIdx(r) == IF r = 0 THEN ens.neigh_idx ELSE prot[r].neigh_idx
STensor(r) == IF r = 0 THEN ens.neigh_tensor ELSE prot[r].neigh_tensor
SScale(r) == IF r = 0 THEN Len(ens.proteins) ELSE 1

Metrics == {"lddt", "ldd", "ntd", "shear", "strain"}

\* bins = [0.5, 1, 2, 4], in half Angstroms
Bins == <<1, 2, 4, 8>>

\* Deformation.__init__ with two structure objects
DeformationInit(a, b, method) ==
    [made |-> TRUE, prot1 |-> a, prot2 |-> b, method |-> method,
     called |-> FALSE, keys |-> {}, deformation |-> [m \in Metrics |-> <<>>],
     raised |-> "none"]

\* i1 = [j for j, k in enumerate(own) if k in other]
SharedPos(own, other) ==
    SelectSeq(Indices(Len(own)), LAMBDA j : Contains(other, own[j]))

\* neigh_tensor[i][i1]: the rows at the positions i1
Take(T, pos) == [k \in 1..Len(pos) |-> T[pos[k]]]

\* the rows times f (used to bring two tensors to a common denominator)
ScaleRows(c, f) ==
    [k \in 1..Len(c) |-> Row(c[k].v[1] * f, c[k].v[2] * f, c[k].v[3] * f)]

\* the guards without the test for shared indices
NoDataUnshared(T1i, T2i, idx1i, idx2i) == Len(T1i) = 0 \/ Len(T2i) = 0

\* "no data for residue" or "no shared indices"
NoData(T1i, T2i, idx1i, idx2i) ==
    \/ Len(T1i) = 0
    \/ Len(T2i) = 0
    \/ Len(SharedPos(idx1i, idx2i)) = 0

NaNScore == [nan |-> TRUE, num |-> 0, den |-> 1]
NaNValue == [nan |-> TRUE, known |-> TRUE, zero |-> FALSE]
Value(zero) == [nan |-> FALSE, known |-> TRUE, zero |-> zero]
UnknownValue == [nan |-> FALSE, known |-> FALSE, zero |-> FALSE]

\* dv <= cut for one neighbour, dv = v2 - v1: with s1, s2 the squared norms
\* over the denominator d and the bin b in half Angstroms,
\* sqrt(s2)/d - sqrt(s1)/d <= b/2
DiffWithin(s1, s2, b, d) ==
    LET t == 4 * s2 - 4 * s1 - (b * d) * (b * d)
    IN  t <= 0 \/ t * t <= 16 * (b * d) * (b * d) * s1

\* np.sum([np.sum(dv <= cut) for cut in bins]) / (4 * len(dv))
LddtScore(c1, c2, d) ==
    LET hits(b) ==
            Cardinality({k \in 1..Len(c1) :
                            DiffWithin(SqNorm(c1[k]), SqNorm(c2[k]), Bins[b], d)})
    IN  [nan |-> FALSE, num |-> SumTo(hits, Len(Bins)), den |-> 4 * Len(c1)]

\* np.linalg.norm(ld1 - ld2), divided by len(i1) or not: 0 exactly when
\* every pair of norms agrees
LddValue(c1, c2) ==
    Value(\A k \in 1..Len(c1) : SqNorm(c1[k]) = SqNorm(c2[k]))

\* np.linalg.norm(rotate_points(c2, c1) - c1), divided by len(i1) or not
NtdValue(c1, c2) ==
    IF RotDeterminate(c2, c1)
    THEN Value(RotatePoints(c2, c1) = c1)
    ELSE UnknownValue

\* s += norm(c3[j] - c1[j]) / norm(c1[j]): a zero row of c1 gives 0/0 = NaN
\* when the rotated row is zero too and x/0 = inf otherwise; a rotation
\* keeps the norm of a row, so c3[j] is zero exactly when c2[j] is
StrainValue(c1, c2) ==
    IF \E k \in 1..Len(c1) : c1[k] = ZeroRow /\ c2[k] = ZeroRow THEN NaNValue
    ELSE IF \E k \in 1..Len(c1) : c1[k] = ZeroRow THEN Value(FALSE)
    ELSE IF RotDeterminate(c2, c1) THEN Value(RotatePoints(c2, c1) = c1)
    ELSE UnknownValue

\* the inner product of two rows
Dot(x, y) == x[1] * y[1] + x[2] * y[2] + x[3] * y[3]

Det3(G) ==
      G[1][1] * (G[2][2] * G[3][3] - G[2][3] * G[3][2])
    - G[1][2] * (G[2][1] * G[3][3] - G[2][3] * G[3][1])
    + G[1][3] * (G[2][1] * G[3][2] - G[2][2] * G[3][1])

\* det(G) * inverse(G)
Adj3(G) ==
    LET nx(i) == (i % 3) + 1
        cof(i, j) == G[nx(i)][nx(j)] * G[nx(nx(i))][nx(nx(j))]
                     - G[nx(i)][nx(nx(j))] * G[nx(nx(i))][nx(j)]
    IN  [i \in 1..3 |-> [j \in 1..3 |-> cof(j, i)]]

\* the shear of a residue whose singular matrix is inverted without an error
ShearValueUnchecked(c1, c2, s1, s2) ==
    LET G == [a \in 1..3 |-> [b \in 1..3 |-> CrossCov(c1, c1, a, b)]]
    IN  Value(Det3(G) # 0 /\ c1 = c2)

\* the body of the try block: np.linalg.inv raises on a singular u1.T @ u1
\* and the handler appends NaN; otherwise C is a positive multiple of
\* N = adj @ u1.T @ duu @ u1 @ adj, which is symmetric, and
\* 0.5 * sum(diag(C @ C) - diag(C)**2) is the sum of C[i][j] * C[j][i]
\* over i < j: 0 exactly when N has no off-diagonal entry
ShearValue(c1, c2, s1, s2) ==
    LET n == Len(c1)
        \* duu = u2 @ u2.T - u1 @ u1.T, each structure on its own scale
        duu(k, l) == s1 * s1 * Dot(c2[k].v, c2[l].v) - s2 * s2 * Dot(c1[k].v, c1[l].v)
        \* u1.T @ u1
        G == [a \in 1..3 |-> [b \in 1..3 |-> CrossCov(c1, c1, a, b)]]
        uu == Adj3(G)
        \* u1.T @ duu @ u1
        inner(a, b) ==
            LET overL(k) == LET t(l) == c1[k].v[a] * duu(k, l) * c1[l].v[b]
                            IN  SumTo(t, n)
            IN  SumTo(overL, n)
        N(i, j) ==
            LET overB(a) == LET t(b) == uu[i][a] * inner(a, b) * uu[b][j]
                            IN  SumTo(t, 3)
            IN  SumTo(overB, 3)
    IN  IF Det3(G) = 0 THEN NaNValue
        ELSE Value(\A i, j \in 1..3 : i # j => (N(i, j) = 0 \/ N(j, i) = 0))

\* one residue of one metric: the guards, the shared rows, the score
MetricAt(m, r1, r2, i) ==
    LET T1i == STensor(r1)[i]
        T2i == STensor(r2)[i]
        c1 == Take(T1i, SharedPos(SIdx(r1)[i], SIdx(r2)[i]))
        c2 == Take(T2i, SharedPos(SIdx(r2)[i], SIdx(r1)[i]))
        c1s == ScaleRows(c1, SScale(r2))
        c2s == ScaleRows(c2, SScale(r1))
    IN  IF NoData(T1i, T2i, SIdx(r1)[i], SIdx(r2)[i])
        THEN IF m = "lddt" THEN NaNScore ELSE NaNValue
        ELSE CASE m = "lddt" -> LddtScore(c1s, c2s, SScale(r1) * SScale(r2))
               [] m = "ldd" -> LddValue(c1s, c2s)
               [] m = "ntd" -> NtdValue(c1s, c2s)
               [] m = "shear" -> ShearValue(c1, c2, SScale(r1), SScale(r2))
               [] m = "strain" -> StrainValue(c1s, c2s)

\* calculate_deformation_<m>: one score per residue of prot1
MetricArray(m, r1, r2) ==
    [i \in 1..Len(STensor(r1)) |-> MetricAt(m, r1, r2, i)]

\* the metrics a method asks for
Requested(method) ==
    IF method = "all" THEN Metrics
    ELSE IF method \in Metrics THEN {method} ELSE {}

\* Deformation(a, b, method)
NewDeformation(a, b, method) ==
    /\ ~dfm.made
    /\ (a = 0 \/ b = 0) => ens.made
    /\ dfm' = DeformationInit(a, b, method)
    /\ UNCHANGED <<kwargs, prot, call, ens>>

\* calculate_deformation without the reset of self.deformation: the scores of
\* an earlier call stay in the mapping
CalculatedUnreset(d) ==
    LET keys == Requested(d.method)
    IN  IF keys # {} /\ Len(STensor(d.prot1)) > Len(STensor(d.prot2))
        THEN [d EXCEPT !.called = TRUE, !.raised = "IndexError"]
        ELSE [d EXCEPT !.called = TRUE,
                       !.raised = "none",
                       !.keys = d.keys \cup keys,
                       !.deformation =
                           [m \in Metrics |->
                               IF m \in keys
                               THEN MetricArray(m, d.prot1, d.prot2)
                               ELSE d.deformation[m]]]

\* the body of calculate_deformation: self.deformation is emptied first;
\* every metric loops over the residues
\* of prot1 and indexes prot2 with them, so a shorter prot2 raises at its
\* first missing residue and leaves self.deformation empty
Calculated(d) ==
    LET keys == Requested(d.method)
    IN  IF keys # {} /\ Len(STensor(d.prot1)) > Len(STensor(d.prot2))
        THEN [d EXCEPT !.called = TRUE,
                       !.keys = {},
                       !.deformation = [m \in Metrics |-> <<>>],
                       !.raised = "IndexError"]
        ELSE [d EXCEPT !.called = TRUE,
                       !.raised = "none",
                       !.keys = keys,
                       !.deformation =
                           [m \in Metrics |->
                               IF m \in keys
                               THEN MetricArray(m, d.prot1, d.prot2)
                               ELSE <<>>]]

\* Deformation.calculate_deformation
CalculateDeformation ==
    /\ dfm.made
    /\ dfm' = Calculated(dfm)
    /\ UNCHANGED <<kwargs, prot, call, ens>>

\* ------------------------------------------------------------------------
\* Inputs
\* ------------------------------------------------------------------------
LinePoints(maxX) == {Row(x, 0, 0) : x \in 0..maxX}

CoordSeqs(pts, maxLen) == UNION {[1..n -> pts] : n \in 1..maxLen}

NoCall == [p |-> 0, isStr |-> FALSE, ret |-> <<>>]
NoEns ==
    [made |-> FALSE, proteins |-> <<>>, dtype |-> "", neigh_cut |-> 0,
     neigh_idx |-> <<>>, ldt |-> <<>>, ldt_list |-> <<>>,
     neigh_tensor |-> <<>>, raised |-> "none"]
NoDfm ==
    [made |-> FALSE, prot1 |-> 1, prot2 |-> 1, method |-> "", called |-> FALSE,
     keys |-> {}, deformation |-> [m \in Metrics |-> <<>>], raised |-> "none"]

DummyKw ==
    [name |-> "pdb", dtype |-> "pdb", coord |-> <<Row(0, 0, 0)>>,
     plddt |-> <<1>>, min_plddt |-> 0, neigh_cut |-> 3]

InitWith(K1, K2) ==
    /\ \E k1 \in K1, k2 \in K2 : kwargs = <<k1, k2>>
    /\ prot = [p \in ProtIds |-> ProteinInit(kwargs[p])]
    /\ call = NoCall
    /\ ens = NoEns
    /\ dfm = NoDfm

\* experimental chains on a line, cutoff 1.0 or 1.5
ChainKw ==
    {[name |-> "pdb", dtype |-> "pdb", coord |-> c,
      plddt |-> [k \in 1..Len(c) |-> 1], min_plddt |-> 0, neigh_cut |-> cut] :
        c \in CoordSeqs(LinePoints(ChainMaxX) \cup {NaNRow}, ChainLen),
        cut \in {2, 3}}

InitChain == InitWith(ChainKw, {DummyKw})

NextChain == Fresh(1) /\ GetLocalNeighborhood(1)

SpecChain == InitChain /\ [][NextChain]_vars

\* structures of every kind: the name and the kind tag are independent
\* keywords of the constructor, the quality scores are 0 or 1 against a
\* threshold of 1
KindKw ==
    {[name |-> nm, dtype |-> kd, coord |-> c, plddt |-> q,
      min_plddt |-> 1, neigh_cut |-> 3] :
        nm \in {"af", "dmp", "pdb", "1abc"},
        kd \in {"af", "pdb"},
        c \in CoordSeqs(LinePoints(KindMaxX) \cup {NaNRow}, KindLen),
        q \in UNION {[1..n -> {0, 1}] : n \in 1..KindLen}}

InitKind ==
    /\ InitWith(KindKw, {DummyKw})
    /\ Len(kwargs[1].coord) = Len(kwargs[1].plddt)

NextKind ==
    \/ Fresh(1) /\ GetLocalNeighborhood(1)
    \/ \E isStr \in BOOLEAN : CallGetLdt(1, isStr)

SpecKind == InitKind /\ [][NextKind]_vars

\* an experimental structure with the coordinates c and the cutoff cut
PdbKw(c, cut) ==
    [name |-> "pdb", dtype |-> "pdb", coord |-> c,
     plddt |-> [k \in 1..Len(c) |-> 1], min_plddt |-> 0, neigh_cut |-> cut]

\* the second of two compared conformations: the first with at most k
\* residues moved within pts, or that without its last residue
Moved(c, pts, k) ==
    {c2 \in [1..Len(c) -> pts] :
        Cardinality({i \in 1..Len(c) : c2[i] # c[i]}) <= k}

Variants(c, pts, k) ==
    Moved(c, pts, k)
    \cup (IF Len(c) > 1
          THEN {SubSeq(c2, 1, Len(c) - 1) : c2 \in Moved(c, pts, k)}
          ELSE {})

InitPair(pts, maxLen, k, cut) ==
    /\ \E c \in CoordSeqs(pts, maxLen) :
        \E c2 \in Variants(c, pts, k) :
            kwargs = <<PdbKw(c, cut), PdbKw(c2, cut)>>
    /\ prot = [p \in ProtIds |-> ProteinInit(kwargs[p])]
    /\ call = NoCall
    /\ ens = NoEns
    /\ dfm = NoDfm

Done(p) == prot[p].raised # "none" \/ prot[p].neigh_idx # <<>>
EnsDone == ens.raised # "none" \/ ens.neigh_idx # <<>>

\* pairs of conformations on a line, cutoff 1.5; the script derives both,
\* optionally builds and derives their ensemble, then compares two of the
\* three objects with method 'all'
InitDef == InitPair(LinePoints(PairMaxX) \cup {NaNRow}, PairLen, PairMaxMoved, 3)

NextDef ==
    \/ Fresh(1) /\ GetLocalNeighborhood(1)
    \/ Done(1) /\ Fresh(2) /\ GetLocalNeighborhood(2)
    \/ Done(1) /\ Done(2) /\ ~dfm.made /\ NewAverageProtein(<<1, 2>>, 3)
    \/ ~dfm.made /\ GetAverageLocalNeighborhood
    \/ /\ Done(1) /\ Done(2)
       /\ ens.made => EnsDone
       /\ \E a, b \in {0, 1, 2} : NewDeformation(a, b, "all")
    \/ ~dfm.called /\ CalculateDeformation

SpecDef == InitDef /\ [][NextDef]_vars

\* ensembles of two or more members drawn from two conformations on a line
MemberLists == UNION {[1..n -> ProtIds] : n \in 2..EnsMaxM}

InitEns == InitPair(LinePoints(PairMaxX) \cup {NaNRow}, PairLen, PairMaxMoved, 3)

NextEns ==
    \/ ~ens.made /\ Fresh(1) /\ GetLocalNeighborhood(1)
    \/ ~ens.made /\ \E isStr \in BOOLEAN : CallGetLdt(1, isStr)
    \/ /\ prot[1].neigh_idx = <<>>
       /\ call = NoCall
       /\ \E ms \in MemberLists : NewAverageProtein(ms, 3)
    \/ GetAverageLocalNeighborhood

SpecEns == InitEns /\ [][NextEns]_vars

\* any two short structures on a long line, cutoff 6.0, compared by lddt
InitLddt ==
    InitWith({PdbKw(c, 12) : c \in CoordSeqs(LinePoints(LddtMaxX), LddtLen)},
             {PdbKw(c, 12) : c \in CoordSeqs(LinePoints(LddtMaxX), LddtLen)})

NextLddt ==
    \/ Fresh(1) /\ GetLocalNeighborhood(1)
    \/ Done(1) /\ Fresh(2) /\ GetLocalNeighborhood(2)
    \/ Done(1) /\ Done(2) /\ NewDeformation(1, 2, "lddt")
    \/ ~dfm.called /\ CalculateDeformation

SpecLddt == InitLddt /\ [][NextLddt]_vars

\* conformations on the corners o, ex, ey, ez with the first residue at o,
\* cutoff 1.5
CornerPoints == {Row(0, 0, 0), Row(1, 0, 0), Row(0, 1, 0), Row(0, 0, 1)}

InitShear ==
    /\ \E c \in {f \in [1..ShearLen -> CornerPoints] : f[1] = ZeroRow} :
        \E c2 \in Moved(c, CornerPoints, ShearMaxMoved) :
            kwargs = <<PdbKw(c, 3), PdbKw(c2, 3)>>
    /\ prot = [p \in ProtIds |-> ProteinInit(kwargs[p])]
    /\ call = NoCall
    /\ ens = NoEns
    /\ dfm = NoDfm

NextShear ==
    \/ Fresh(1) /\ GetLocalNeighborhood(1)
    \/ Done(1) /\ Fresh(2) /\ GetLocalNeighborhood(2)
    \/ Done(1) /\ Done(2) /\ \E m \in {"shear", "all"} : NewDeformation(1, 2, m)
    \/ ~dfm.called /\ CalculateDeformation

SpecShear == InitShear /\ [][NextShear]_vars

\* the caller assigns the public attribute method of a Deformation
SetMethod(m) ==
    /\ dfm.made
    /\ dfm.method # m
    /\ dfm' = [dfm EXCEPT !.method = m]
    /\ UNCHANGED <<kwargs, prot, call, ens>>

\* the methods asked for: every metric at once, two single metrics, and a
\* name that is no metric
ResultMethods == {"all", "lddt", "strain", "rmsd"}

\* a structure and a copy of it, whole or without its last residue; any
\* number of calls of calculate_deformation with the method changed between
InitResult == InitPair(LinePoints(PairMaxX) \cup {NaNRow}, PairLen, 0, 3)

NextResult ==
    \/ Fresh(1) /\ GetLocalNeighborhood(1)
    \/ Done(1) /\ Fresh(2) /\ GetLocalNeighborhood(2)
    \/ /\ Done(1) /\ Done(2)
       /\ \E a, b \in ProtIds, m \in ResultMethods : NewDeformation(a, b, m)
    \/ \E m \in ResultMethods : SetMethod(m)
    \/ CalculateDeformation

SpecResult == InitResult /\ [][NextResult]_vars

\* one experimental structure, with or without quality scores, and any
\* sequence of loads and derivations on it
LifeCoords == CoordSeqs(LinePoints(LifeMaxX) \cup {NaNRow}, LifeLen)

LifeKw ==
    {PdbKw(c, 3) : c \in LifeCoords}
    \cup {[PdbKw(c, 3) EXCEPT !.plddt = <<>>] : c \in LifeCoords}

InitLife == InitWith(LifeKw, {DummyKw})

NextLife ==
    \/ GetLocalNeighborhood(1)
    \/ \E c \in LifeCoords : LoadCoordinates(1, c)
    \/ \E c \in LifeCoords : LoadDataFromPath(1, c)

SpecLife == InitLife /\ [][NextLife]_vars

\* ensembles of up to three members drawn from any two short structures on
\* a line, cutoff 1.5
RotKw == {PdbKw(c, 3) : c \in CoordSeqs(LinePoints(RotMaxX) \cup {NaNRow}, RotLen)}

RotMemberLists == UNION {[1..n -> ProtIds] : n \in 2..RotMaxM}

InitRot == InitWith(RotKw, RotKw)

NextRot ==
    \/ \E ms \in RotMemberLists : NewAverageProtein(ms, 3)
    \/ GetAverageLocalNeighborhood

SpecRot == InitRot /\ [][NextRot]_vars

\* ------------------------------------------------------------------------
\* Properties
\* ------------------------------------------------------------------------
Derived(p) == prot[p].raised = "none" /\ prot[p].neigh_idx # <<>>

\* C1: for a Structure of kind 'pdb', after get_local_neighborhood, j is a
\* neighbour of i (i # j) exactly when both coordinates are finite and the
\* distance between them is greater than 0 and at most the cutoff.
C1_NeighbourCutoff ==
    (Derived(1) /\ prot[1].dtype = "pdb") =>
        \A i, j \in 1..Len(prot[1].coord) :
            i # j =>
                LET a == prot[1].coord[i]
                    b == prot[1].coord[j]
                    dx == a.v[1] - b.v[1]
                    dy == a.v[2] - b.v[2]
                    dz == a.v[3] - b.v[3]
                    d2 == dx * dx + dy * dy + dz * dz
                IN  (\E k \in 1..Len(prot[1].neigh_idx[i]) :
                        prot[1].neigh_idx[i][k] = j)
                    <=> (~a.nan /\ ~b.nan /\ d2 > 0
                         /\ 4 * d2 <= prot[1].neigh_cut * prot[1].neigh_cut)

\* the unit-spaced 5-residue chain with cutoff 1.5, derived: source residue
\* 2 has the neighbours {1, 3} and source residue 0 the neighbour {1}
C1_Witness ==
    /\ Derived(1)
    /\ prot[1].dtype = "pdb"
    /\ prot[1].neigh_cut = 3
    /\ prot[1].coord = <<Row(0, 0, 0), Row(1, 0, 0), Row(2, 0, 0),
                         Row(3, 0, 0), Row(4, 0, 0)>>
    /\ prot[1].neigh_idx[3] = <<2, 4>>
    /\ prot[1].neigh_idx[1] = <<2>>

\* ---- helpers of the properties ----
R1 == dfm.prot1
R2 == dfm.prot2

\* the length of a compared structure: its residues
SLen(r) == IF r = 0 THEN Len(prot[ens.proteins[1]].coord) ELSE Len(prot[r].coord)

\* both compared structures carry a derived neighbour set and tensor
BothDerived ==
    /\ dfm.made
    /\ (R1 = 0 \/ R2 = 0) => (ens.raised = "none" /\ ens.neigh_idx # <<>>)
    /\ R1 # 0 => Derived(R1)
    /\ R2 # 0 => Derived(R2)

NeighSet(r, i) == {SIdx(r)[i][k] : k \in 1..Len(SIdx(r)[i])}
SharedSet(i) == NeighSet(R1, i) \cap NeighSet(R2, i)

\* the coordinate of residue i is NaN in the structure (in a member of it)
CoordNaN(r, i) ==
    IF r = 0 THEN \E m \in 1..Len(ens.proteins) : prot[ens.proteins[m]].coord[i].nan
    ELSE prot[r].coord[i].nan

AllNaNAt(i) == \A m \in Metrics : dfm.deformation[m][i].nan

Abs(x) == IF x < 0 THEN 0 - x ELSE x

\* C2: comparing a structure with itself gives lddt = 1 and ldd = ntd =
\* strain = 0 (shear = 0 where it is defined) at every residue that has a
\* shared neighbour.
C2_SelfComparisonIdentity ==
    (dfm.called /\ dfm.raised = "none" /\ BothDerived /\ R1 = R2
     /\ dfm.keys = Metrics) =>
        \A i \in 1..SLen(R1) :
            SharedSet(i) # {} =>
                /\ ~dfm.deformation["lddt"][i].nan
                /\ dfm.deformation["lddt"][i].num = dfm.deformation["lddt"][i].den
                /\ \A m \in {"ldd", "ntd", "strain"} :
                        ~dfm.deformation[m][i].nan /\ dfm.deformation[m][i].zero
                /\ dfm.deformation["shear"][i].nan \/ dfm.deformation["shear"][i].zero

\* C3: where a structure has no tensor data for residue i, or the two share
\* no neighbour of i, or the coordinate of i is NaN in one of them, all five
\* metrics are NaN at i; nothing is raised and every metric has a score for
\* every residue.
C3_MissingDataIsNaN ==
    (dfm.called /\ BothDerived /\ SLen(R1) = SLen(R2) /\ dfm.method = "all") =>
        /\ dfm.raised = "none"
        /\ dfm.keys = Metrics
        /\ \A m \in Metrics : Len(dfm.deformation[m]) = SLen(R1)
        /\ \A i \in 1..SLen(R1) :
                (\/ Len(STensor(R1)[i]) = 0
                 \/ Len(STensor(R2)[i]) = 0
                 \/ SharedSet(i) = {}
                 \/ CoordNaN(R1, i)
                 \/ CoordNaN(R2, i)) => AllNaNAt(i)

\* two different structures, a residue whose coordinate is NaN in one of
\* them only, and another residue that has a score
C3_Witness ==
    /\ dfm.called
    /\ BothDerived
    /\ SLen(R1) = SLen(R2)
    /\ dfm.keys = Metrics
    /\ R1 # R2
    /\ \E i, k \in 1..SLen(R1) :
            /\ CoordNaN(R1, i) # CoordNaN(R2, i)
            /\ AllNaNAt(i)
            /\ ~dfm.deformation["lddt"][k].nan

\* C4: structures of different lengths are rejected before any residue is
\* scored: the comparison raises and produces no result, and an ensemble of
\* members of different lengths raises.
C4_LengthMismatchRejected ==
    /\ (dfm.called /\ BothDerived /\ SLen(R1) # SLen(R2)) =>
            (dfm.raised # "none" /\ dfm.keys = {})
    /\ (ens.made /\ (ens.raised # "none" \/ ens.neigh_idx # <<>>)
        /\ \E m \in 1..Len(ens.proteins) :
                Len(prot[ens.proteins[m]].coord) # Len(prot[ens.proteins[1]].coord))
            => ens.raised # "none"

\* b is the negation of a (a NaN row is stored on both sides)
Negated(a, b) ==
    /\ a.nan = b.nan
    /\ ~a.nan => \A c \in 1..3 : a.v[c] + b.v[c] = 0

Mutual(idx, i, j) ==
    /\ \E k \in 1..Len(idx[i]) : idx[i][k] = j
    /\ \E k \in 1..Len(idx[j]) : idx[j][k] = i

\* C5: the vector stored for (i, j) is the negation of the one stored for
\* (j, i) whenever j is a neighbour of i and i of j, in the tensor of a
\* Protein, in the tensors an AverageProtein computes for its members, and
\* for every pair i # j of the all-pairs mode.
C5_Antisymmetry ==
    /\ Derived(1) =>
            \A i, j \in 1..Len(prot[1].coord) :
                Mutual(prot[1].neigh_idx, i, j) =>
                    Negated(prot[1].neigh_tensor[i][j], prot[1].neigh_tensor[j][i])
    /\ (call.p # 0 /\ ~call.isStr) =>
            \A i, j \in 1..Len(call.ret) :
                Mutual(prot[call.p].neigh_idx, i, j) =>
                    Negated(call.ret[i][j], call.ret[j][i])
    /\ (call.p # 0 /\ call.isStr) =>
            \A i, j \in 1..Len(call.ret) :
                i # j => Negated(call.ret[i][j], call.ret[j][i])
    /\ (ens.raised = "none" /\ ens.neigh_idx # <<>>) =>
            \A m \in 1..Len(ens.ldt) :
                \A i, j \in 1..Len(ens.neigh_idx) :
                    Mutual(ens.neigh_idx, i, j) =>
                        Negated(ens.ldt[m][i][j], ens.ldt[m][j][i])

\* a Protein with two residues that are neighbours of each other and whose
\* stored vectors are not zero, and an all-pairs call on it
C5_Witness ==
    /\ Derived(1)
    /\ \E i, j \in 1..Len(prot[1].coord) :
            /\ Mutual(prot[1].neigh_idx, i, j)
            /\ prot[1].neigh_tensor[i][j] # ZeroRow
            /\ prot[1].neigh_tensor[j][i] # ZeroRow
    /\ call.p # 0
    /\ call.isStr
    /\ \E i, j \in 1..Len(call.ret) :
            i # j /\ ~call.ret[i][j].nan /\ call.ret[i][j] # ZeroRow

\* C6: a residue with 0 or 1 consensus neighbours has an empty consensus
\* entry; a residue with 2 or more has, per neighbour, the mean of the M
\* collected vectors (the model stores M times the mean).
C6_ConsensusDegeneracy ==
    (ens.raised = "none" /\ ens.neigh_idx # <<>>) =>
        \A i \in 1..Len(ens.neigh_idx) :
            /\ Len(ens.neigh_idx[i]) <= 1 => ens.neigh_tensor[i] = <<>>
            /\ Len(ens.neigh_idx[i]) >= 2 =>
                /\ Len(ens.ldt_list[i]) = Len(ens.proteins)
                /\ Len(ens.neigh_tensor[i]) = Len(ens.neigh_idx[i])
                /\ \A k \in 1..Len(ens.neigh_idx[i]), c \in 1..3 :
                        LET t(m) == ens.ldt_list[i][m][k].v[c]
                        IN  ens.neigh_tensor[i][k].v[c] = SumTo(t, Len(ens.proteins))

\* a consensus with a residue of exactly one neighbour and a residue of two,
\* one of whose collected sets differs from member 0's
C6_Witness ==
    /\ ens.raised = "none"
    /\ ens.neigh_idx # <<>>
    /\ \E i, j \in 1..Len(ens.neigh_idx) :
            /\ Len(ens.neigh_idx[i]) = 1
            /\ ens.neigh_tensor[i] = <<>>
            /\ Len(ens.neigh_idx[j]) = 2
            /\ ens.neigh_tensor[j] # <<>>
            /\ \E m \in 2..Len(ens.proteins) :
                    ens.ldt_list[j][m] # ens.ldt_list[j][1]

\* the distance between residues i and k of a Protein (whole on a line)
TrueDist(r, i, k) == Isqrt(SqNorm(RowSub(prot[r].coord[i], prot[r].coord[k])))

\* C7: lddt = (sum over the bins of the number of shared neighbours whose
\* distance changes by at most the bin) / (4 n); it lies in [0, 1] and is 1
\* only when no shared neighbour's distance changes by more than 0.5.
C7_LddtFormula ==
    (dfm.called /\ dfm.raised = "none" /\ BothDerived /\ R1 # 0 /\ R2 # 0
     /\ "lddt" \in dfm.keys) =>
        \A i \in 1..Len(dfm.deformation["lddt"]) :
            LET v == dfm.deformation["lddt"][i]
                change(k) == Abs(TrueDist(R1, i, k) - TrueDist(R2, i, k))
                hits(b) == Cardinality({k \in SharedSet(i) : 2 * change(k) <= Bins[b]})
            IN  ~v.nan =>
                    /\ v.den = 4 * Cardinality(SharedSet(i))
                    /\ v.num = SumTo(hits, 4)
                    /\ 0 <= v.num /\ v.num <= v.den
                    /\ v.num = v.den => \A k \in SharedSet(i) : 2 * change(k) <= 1

\* C8: the tensor of a structure has an entry for (i, j) only when j is a
\* neighbour of i; no entry of a non-neighbour is present as a zero vector.
C8_NonNeighboursAbsent ==
    Derived(1) =>
        \A i \in 1..Len(prot[1].neigh_tensor) :
            \A j \in 1..Len(prot[1].neigh_tensor[i]) :
                \E k \in 1..Len(prot[1].neigh_idx[i]) : prot[1].neigh_idx[i][k] = j

\* C9: the kind tag given at construction selects the policy: with 'af' or
\* 'dmp' the neighbours of i are the j with 0 < D[i,j] <= cutoff and both
\* qualities at least the threshold; with 'pdb' the qualities play no part.
C9_KindSelectsPolicy ==
    Done(1) =>
        LET kw == kwargs[1]
            near(i, j) ==
                LET a == kw.coord[i]
                    b == kw.coord[j]
                    d2 == (a.v[1] - b.v[1]) * (a.v[1] - b.v[1])
                          + (a.v[2] - b.v[2]) * (a.v[2] - b.v[2])
                          + (a.v[3] - b.v[3]) * (a.v[3] - b.v[3])
                IN  ~a.nan /\ ~b.nan /\ d2 > 0 /\ 4 * d2 <= kw.neigh_cut * kw.neigh_cut
            good(i) == kw.plddt[i] >= kw.min_plddt
            isNeigh(i, j) ==
                \E k \in 1..Len(prot[1].neigh_idx[i]) : prot[1].neigh_idx[i][k] = j
        IN  /\ prot[1].raised = "none"
            /\ Len(prot[1].neigh_idx) = Len(kw.coord)
            /\ \A i, j \in 1..Len(kw.coord) :
                    isNeigh(i, j) <=>
                        IF kw.dtype \in {"af", "dmp"}
                        THEN near(i, j) /\ good(i) /\ good(j)
                        ELSE near(i, j)

\* the rows the shear of residue i is computed from
ShearRows(i) ==
    LET idx1 == SIdx(R1)[i]
        pos == {k \in 1..Len(idx1) : idx1[k] \in NeighSet(R2, i)}
    IN  {STensor(R1)[i][k].v : k \in pos}

Triple(a, b, c) ==
      a[1] * (b[2] * c[3] - b[3] * c[2])
    - a[2] * (b[1] * c[3] - b[3] * c[1])
    + a[3] * (b[1] * c[2] - b[2] * c[1])

\* u1.T @ u1 is singular: the rows of u1 do not span the space
Singular(i) == \A a, b, c \in ShearRows(i) : Triple(a, b, c) = 0

C11_ResultMapping ==
    [][(/\ dfm.made
        /\ dfm' # dfm
        /\ dfm'.method = dfm.method
        /\ dfm.method \in Metrics \cup {"all"}
        /\ BothDerived
        /\ SLen(R1) = SLen(R2))
       => (/\ dfm'.raised = "none"
           /\ dfm'.keys = (IF dfm.method = "all" THEN Metrics ELSE {dfm.method})
           /\ \A m \in Metrics :
                Len(dfm'.deformation[m]) = (IF m \in dfm'.keys THEN SLen(R1) ELSE 0))]_vars

\* a Deformation last called with 'lddt' after its method was changed: only
\* lddt is in the mapping, with one score per residue
C11_Witness ==
    /\ dfm.called
    /\ BothDerived
    /\ SLen(R1) = SLen(R2)
    /\ SLen(R1) >= 2
    /\ dfm.method = "lddt"
    /\ dfm.keys = {"lddt"}
    /\ Len(dfm.deformation["lddt"]) = SLen(R1)
    /\ dfm.deformation["strain"] = <<>>

\* the rows a metric takes from structure r for residue i when it is compared
\* with the structure o, and the residues they are taken for: the shared
\* neighbours of i in the order of r's neighbour list
RowsTaken(r, o, i) == Take(STensor(r)[i], SharedPos(SIdx(r)[i], SIdx(o)[i]))
SharedSeq(r, o, i) == Take(SIdx(r)[i], SharedPos(SIdx(r)[i], SIdx(o)[i]))

\* row k taken from r for residue i belongs to residue j: in a Protein it is
\* coord[i] - coord[j]; in an ensemble it is the consensus entry of j, the
\* sum over the members of the vectors collected for j
RowIsFor(r, o, i, k, j) ==
    IF r # 0
    THEN RowsTaken(r, o, i)[k] = RowSub(prot[r].coord[i], prot[r].coord[j])
    ELSE \E p \in 1..Len(ens.neigh_idx[i]) :
            /\ ens.neigh_idx[i][p] = j
            /\ ens.ldt_list[i][1][p] = ens.ldt[1][i][j]
            /\ \A c \in 1..3 :
                    LET t(m) == ens.ldt_list[i][m][p].v[c]
                    IN  RowsTaken(r, o, i)[k].v[c] = SumTo(t, Len(ens.proteins))

\* C12: for every residue i with shared neighbours, the k-th row taken from
\* A and the k-th row taken from B are both the displacement between i and
\* the k-th shared neighbour of i, for Proteins and for ensembles.
C12_PositionalCorrespondence ==
    (dfm.called /\ dfm.raised = "none" /\ BothDerived /\ SLen(R1) = SLen(R2)) =>
        \A i \in 1..SLen(R1) :
            ~NoData(STensor(R1)[i], STensor(R2)[i], SIdx(R1)[i], SIdx(R2)[i]) =>
                /\ SharedSeq(R1, R2, i) = SharedSeq(R2, R1, i)
                /\ \A k \in 1..Len(SharedSeq(R1, R2, i)) :
                        /\ RowIsFor(R1, R2, i, k, SharedSeq(R1, R2, i)[k])
                        /\ RowIsFor(R2, R1, i, k, SharedSeq(R1, R2, i)[k])

\* the derived neighbour set and tensor of Protein 1 are those of its
\* current coordinates
AgreesWithCoord ==
    LET P == prot[1]
        near(i, j) ==
            LET d == RowSub(P.coord[i], P.coord[j])
            IN  ~d.nan /\ SqNorm(d) > 0 /\ 4 * SqNorm(d) <= P.neigh_cut * P.neigh_cut
    IN  /\ Len(P.neigh_idx) = Len(P.coord)
        /\ Len(P.neigh_tensor) = Len(P.coord)
        /\ \A i, j \in 1..Len(P.coord) :
                /\ Contains(P.neigh_idx[i], j) <=> near(i, j)
                /\ near(i, j) => P.neigh_tensor[i][j] = RowSub(P.coord[i], P.coord[j])

\* C13: once the neighbour set and tensor of a Structure are derived they
\* are not written again and its coordinates are not changed, so a derived
\* neighbour set and tensor always agree with the current coordinates.
C13_WriteOnce ==
    /\ [](Derived(1) => AgreesWithCoord)
    /\ [][Derived(1) =>
            /\ prot'[1].neigh_idx = prot[1].neigh_idx
            /\ prot'[1].neigh_tensor = prot[1].neigh_tensor
            /\ prot'[1].coord = prot[1].coord]_vars

\* the vectors member m has for the consensus neighbours of residue j, as
\* computed from its coordinates
RawSet(m, j) ==
    [k \in 1..Len(ens.neigh_idx[j]) |-> ens.ldt[m][j][ens.neigh_idx[j][k]]]

\* the sum of the inner products of the rows of two sets
Overlap(P, Q) == LET t(k) == Dot(P[k].v, Q[k].v) IN SumTo(t, Len(P))

\* C14: per residue, the first collected set is member 0's, unrotated; the
\* set of every other member is collected after rotation onto member 0's
\* original set (on a line: reversed exactly when it points against member
\* 0's); there are M collected sets, in member order.
C14_RotationOntoFirst ==
    (ens.raised = "none" /\ ens.neigh_idx # <<>>) =>
        \A j \in 1..Len(ens.neigh_idx) :
            /\ Len(ens.ldt_list[j]) = Len(ens.proteins)
            /\ ens.ldt_list[j][1] = RawSet(1, j)
            /\ \A m \in 2..Len(ens.proteins) :
                    ens.ldt_list[j][m] =
                        IF Overlap(RawSet(m, j), RawSet(1, j)) < 0
                        THEN [k \in 1..Len(RawSet(m, j)) |-> RowNeg(RawSet(m, j)[k])]
                        ELSE RawSet(m, j)

\* an ensemble of three members in which, at some residue, the sets of the
\* members 1 and 2 point the same way and against member 0's: the set of
\* member 2 is collected reversed
C14_Witness ==
    /\ ens.raised = "none"
    /\ ens.neigh_idx # <<>>
    /\ Len(ens.proteins) = 3
    /\ \E j \in 1..Len(ens.neigh_idx) :
            /\ Len(ens.neigh_idx[j]) >= 1
            /\ Len(ens.ldt_list[j]) = 3
            /\ Overlap(RawSet(3, j), RawSet(2, j)) > 0
            /\ Overlap(RawSet(3, j), RawSet(1, j)) < 0
            /\ ens.ldt_list[j][3] # RawSet(3, j)

====
